---- MODULE Spec2Model ----
(***************************************************************************)
(* Model of app.py (Kokoro TTS API): the Locator find_kokoro_script, the   *)
(* Invoker run_kokoro_tts and the routes /generate and /health.            *)
(*                                                                         *)
(* A request text is kept run-length encoded: a sequence of runs           *)
(* [c |-> class, n |-> length] where class "ws" is whitespace and "ch" is  *)
(* any other character; len() and str.strip() are computed on the runs, so *)
(* that texts around the 5000-character limit stay small values.           *)
(*                                                                         *)
(* generate_speech is an async handler without any await and              *)
(* subprocess.run blocks the event loop, so the one uvicorn process        *)
(* handles one request at a time: req is the request being handled (or the *)
(* last one handled), and what earlier requests left on disk stays in      *)
(* tmpFiles and outFiles.  Only the child process runs beside the handler. *)
(***************************************************************************)
EXTENDS Integers, Sequences, FiniteSets, TLC

\* ------------------------------------------------------------- bounds ----
NumHexIds == 2
NumTmpNames == 2

HexIds == 1..NumHexIds
TmpNames == 1..NumTmpNames

\* ------------------------------------------------------ request texts ----
MaxTextLen == 5000

Run(c, n) == [c |-> c, n |-> n]

\* The texts submitted: empty, blank, blank and over the limit, one
\* character, the limit reached with a leading blank, over the limit, and
\* over the limit only because of a leading blank.
Texts ==
    {<<>>,
     <<Run("ws", 1)>>,
     <<Run("ws", MaxTextLen + 1)>>,
     <<Run("ch", 1)>>,
     <<Run("ws", 1), Run("ch", MaxTextLen - 1)>>,
     <<Run("ch", MaxTextLen + 1)>>,
     <<Run("ws", 1), Run("ch", MaxTextLen)>>}

Formats == {"mp3", "wav"}

\* The requests submitted: every text as mp3, the one-character text also
\* as wav.
Requests ==
    {[text |-> t, format |-> "mp3"] : t \in Texts}
    \cup {[text |-> <<Run("ch", 1)>>, format |-> "wav"]}

RECURSIVE TextLen(_)
TextLen(t) == IF t = <<>> THEN 0 ELSE Head(t).n + TextLen(Tail(t))

RECURSIVE LStrip(_)
LStrip(t) ==
    IF t = <<>> THEN <<>>
    ELSE IF Head(t).c = "ws" THEN LStrip(Tail(t)) ELSE t

RECURSIVE RStrip(_)
RStrip(t) ==
    IF t = <<>> THEN <<>>
    ELSE IF t[Len(t)].c = "ws" THEN RStrip(SubSeq(t, 1, Len(t) - 1)) ELSE t

Strip(t) == RStrip(LStrip(t))

\* ----------------------------------------------------------- messages ----
Msg(k, d) == [kind |-> k, detail |-> d]
NoMsg == Msg("", "")
MsgEmpty == Msg("Text cannot be empty", "")
MsgTooLong == Msg("Text too long (max 5000 characters)", "")
MsgNotFound == Msg("Kokoro TTS script not found", "")
MsgSuccess == Msg("TTS generation successful", "")
MsgOutputMissing == Msg("Output file not created", "")
MsgTimeout == Msg("TTS generation timed out", "")
MsgInternal == Msg("Internal server error", "")
MsgFailed(stderr) == Msg("TTS generation failed: ", stderr)
MsgUnexpected(e) == Msg("Unexpected error: ", e)

ChildStderr == "stderr of kokoro-tts"

\* -------------------------------------------------------------- paths ----
NoPath == [id |-> 0, ext |-> ""]
OutPath(id, fmt) == [id |-> id, ext |-> fmt]
OutPaths == {OutPath(i, f) : i \in HexIds, f \in Formats}

\* ------------------------------------------------------------ Locator ----
\* possible_paths, in list order; entry i of a filesystem state is the kind
\* of possible_paths[i] / "kokoro-tts".
NumCandidates == 4
Candidates == 1..NumCandidates
Kinds == {"absent", "file_exec", "file_plain", "dir"}

\* Candidate 1 is /opt/render/project/src/kokoro-tts/kokoro-tts and candidate
\* 2 is /opt/render/project/src/kokoro-tts: the first can only exist when the
\* second is a directory.  The same holds of ./kokoro-tts/kokoro-tts
\* (candidate 4) and ./kokoro-tts (candidate 3).
FsStates ==
    {f \in [Candidates -> Kinds] :
        /\ f[1] # "absent" => f[2] = "dir"
        /\ f[4] # "absent" => f[3] = "dir"}

\* The filesystems of a deployment whose working directory holds no
\* kokoro-tts entry.
FsDeployed == {f \in FsStates : f[3] = "absent" /\ f[4] = "absent"}

Exists(k) == k # "absent"

\* A lookup that falls back to the last candidate instead of None.
find_kokoro_script_fallback(f) ==
    IF \E i \in Candidates : Exists(f[i])
    THEN CHOOSE i \in Candidates :
            Exists(f[i]) /\ \A j \in Candidates : Exists(f[j]) => i <= j
    ELSE NumCandidates

RECURSIVE FindFrom(_, _)
FindFrom(f, i) ==
    IF i > NumCandidates THEN 0
    ELSE IF Exists(f[i]) THEN i ELSE FindFrom(f, i + 1)

find_kokoro_script(f) == FindFrom(f, 1)

\* ------------------------------------------------------------- state ----
VARIABLES
    fs,        \* kind of each candidate script path
    tmpFiles,  \* temporary directory: name -> [exists, content]
    outFiles,  \* OUTPUT_DIR: output path -> whether the file exists
    req,       \* the request being handled: position of the handler and
               \* what it has seen
    health     \* last answer of /health

vars == <<fs, tmpFiles, outFiles, req, health>>

Result(s, m, p) == [success |-> s, message |-> m, outputPath |-> p]
NoResult == Result(FALSE, NoMsg, NoPath)

Response(st, d, p, mt) == [status |-> st, detail |-> d, file |-> p, media_type |-> mt]
NoResponse == Response(0, NoMsg, NoPath, "")

NoFile == [exists |-> FALSE, content |-> <<>>]

InitReq ==
    [pc |-> "idle",         \* idle, locate, mktemp, spawn, running, done
     text |-> <<>>, format |-> "mp3",
     calls |-> 0,           \* calls of run_kokoro_tts
     script |-> 0,          \* kokoro_script, 0 for None
     tmp |-> 0,             \* input_file, 0 if none was created
     out |-> NoPath,        \* output_file
     clobbers |-> FALSE,    \* output_file was a file of an earlier request
     wrote |-> FALSE,       \* the child of this request wrote output_file
     childInput |-> <<>>,   \* what the child found in input_file
     spawned |-> FALSE,
     outcome |-> "none",    \* none, timeout, exit0, exit1
     exc |-> "none",        \* exception raised inside run_kokoro_tts
     excAt |-> "none",      \* statement that raised it
     seen |-> "unchecked",  \* output_file.exists(): unchecked, present, absent
     returned |-> FALSE,    \* run_kokoro_tts returned a tuple
     raised |-> FALSE,      \* run_kokoro_tts raised to its caller
     result |-> NoResult,
     response |-> NoResponse]

InitRest ==
    /\ tmpFiles = [n \in TmpNames |-> NoFile]
    /\ outFiles = [p \in OutPaths |-> FALSE]
    /\ req = InitReq
    /\ health = [called |-> FALSE, kokoro_available |-> FALSE, script_path |-> 0]

Init == fs \in FsDeployed /\ InitRest

\* ----------------------------------------------------- generate_speech ----
\* The emptiness test without the strip().
IsBlankUnstripped(text) == text = <<>>

IsBlank(text) == Strip(text) = <<>>

\* The length test on the stripped text.
TooLongStripped(text) == TextLen(Strip(text)) > MaxTextLen

TooLong(text) == TextLen(text) > MaxTextLen

MediaType(fmt) == IF fmt = "mp3" THEN "audio/mpeg" ELSE "audio/wav"

\* What generate_speech answers once run_kokoro_tts has returned (or raised).
RespondTo(raised, res, fmt) ==
    IF raised THEN Response(500, MsgInternal, NoPath, "")
    ELSE IF res.success /\ res.outputPath # NoPath
         THEN Response(200, NoMsg, res.outputPath, MediaType(fmt))
         ELSE Response(500, res.message, NoPath, "")

\* ------------------------------------------------------ run_kokoro_tts ----
\* The except clauses without the final "except Exception".
run_kokoro_tts_except_timeout_only(e) ==
    IF e = "TimeoutExpired"
    THEN [raised |-> FALSE, result |-> Result(FALSE, MsgTimeout, NoPath)]
    ELSE [raised |-> TRUE, result |-> NoResult]

\* The except clauses of run_kokoro_tts.
run_kokoro_tts_except(e) ==
    IF e = "TimeoutExpired"
    THEN [raised |-> FALSE, result |-> Result(FALSE, MsgTimeout, NoPath)]
    ELSE [raised |-> FALSE, result |-> Result(FALSE, MsgUnexpected(e), NoPath)]

\* A write of the stripped text.
TempFileContentStripped(text) == Strip(text)

\* What f.write(text) leaves in the input file.
TempFileContent(text) == text

\* A classification that trusts the return code alone.
ClassifyByReturnCode(returncode, outExists, out) ==
    IF returncode = 0
    THEN Result(TRUE, MsgSuccess, out)
    ELSE Result(FALSE, MsgFailed(ChildStderr), NoPath)

\* The classification after the child has returned.
Classify(returncode, outExists, out) ==
    IF returncode = 0
    THEN IF outExists
         THEN Result(TRUE, MsgSuccess, out)
         ELSE Result(FALSE, MsgOutputMissing, NoPath)
    ELSE Result(FALSE, MsgFailed(ChildStderr), NoPath)

\* run_kokoro_tts returns res to generate_speech, which answers.
Return(cur, res) ==
    [cur EXCEPT !.pc = "done", !.returned = TRUE, !.result = res,
                !.response = RespondTo(FALSE, res, cur.format)]

\* An exception e is raised at statement at inside the try block.
Throw(cur, e, at) ==
    LET h == run_kokoro_tts_except(e)
        c == [cur EXCEPT !.exc = e, !.excAt = at]
    IN IF h.raised
       THEN [c EXCEPT !.pc = "done", !.raised = TRUE,
                      !.response = RespondTo(TRUE, NoResult, cur.format)]
       ELSE Return(c, h.result)

\* POST /generate: validation, then entry into run_kokoro_tts.
generate_speech ==
    /\ req.pc \in {"idle", "done"}
    /\ \E request \in Requests :
        LET text == request.text
            cur == [InitReq EXCEPT !.text = text, !.format = request.format] IN
        req' = IF IsBlank(text)
               THEN [cur EXCEPT !.pc = "done",
                                !.response = Response(400, MsgEmpty, NoPath, "")]
               ELSE IF TooLong(text)
               THEN [cur EXCEPT !.pc = "done",
                                !.response = Response(400, MsgTooLong, NoPath, "")]
               ELSE [cur EXCEPT !.pc = "locate", !.calls = @ + 1]
    /\ UNCHANGED <<fs, tmpFiles, outFiles, health>>

\* kokoro_script = find_kokoro_script(); if not kokoro_script: return ...
Locate ==
    /\ req.pc = "locate"
    /\ LET s == find_kokoro_script(fs) IN
        req' = IF s = 0
               THEN Return(req, Result(FALSE, MsgNotFound, NoPath))
               ELSE [req EXCEPT !.pc = "mktemp", !.script = s]
    /\ UNCHANGED <<fs, tmpFiles, outFiles, health>>

FreeTmpNames == {n \in TmpNames : ~tmpFiles[n].exists}

\* NamedTemporaryFile(delete=False) creates a file under a name that no
\* existing file has (O_EXCL), f.write(text) fills it; then the output path
\* is tts_<8 hex>.<format> in OUTPUT_DIR.
CreateTemp ==
    /\ req.pc = "mktemp"
    /\ \/ \* no file could be created
          /\ req' = Throw(req, "OSError", "NamedTemporaryFile")
          /\ UNCHANGED tmpFiles
       \/ \* created, but the write or the close raised
          \E n \in FreeTmpNames :
            /\ tmpFiles' = [tmpFiles EXCEPT ![n] = [exists |-> TRUE, content |-> <<>>]]
            /\ req' = Throw([req EXCEPT !.tmp = n], "OSError", "write")
       \/ \E n \in FreeTmpNames, id \in HexIds :
            LET out == OutPath(id, req.format) IN
            /\ tmpFiles' = [tmpFiles EXCEPT ![n] =
                   [exists |-> TRUE, content |-> TempFileContent(req.text)]]
            /\ req' = [req EXCEPT !.pc = "spawn", !.tmp = n, !.out = out,
                                  !.clobbers = outFiles[out]]
    /\ UNCHANGED <<fs, outFiles, health>>

\* subprocess.run(cmd, ...) starts the child, or raises when the script
\* cannot be executed.
Spawn ==
    /\ req.pc = "spawn"
    /\ \/ /\ fs[req.script] = "file_exec"
          /\ req' = [req EXCEPT !.pc = "running", !.spawned = TRUE,
                                !.childInput = tmpFiles[req.tmp].content]
       \/ req' = Throw(req, "OSError", "subprocess.run")
    /\ UNCHANGED <<fs, tmpFiles, outFiles, health>>

\* The child writes (or overwrites) its output file.
ChildWrite ==
    /\ req.pc = "running"
    /\ ~req.wrote
    /\ outFiles' = [outFiles EXCEPT ![req.out] = TRUE]
    /\ req' = [req EXCEPT !.wrote = TRUE]
    /\ UNCHANGED <<fs, tmpFiles, health>>

\* The child exits; subprocess.run returns; os.unlink(input_file); the
\* return code and output_file.exists() decide the result.
ChildExit ==
    /\ req.pc = "running"
    /\ \E code \in {0, 1}, unlinkOk \in BOOLEAN :
        LET cur == [req EXCEPT !.outcome = IF code = 0 THEN "exit0" ELSE "exit1"]
            present == outFiles[cur.out]
        IN IF ~unlinkOk
           THEN /\ req' = Throw(cur, "OSError", "os.unlink")
                /\ UNCHANGED tmpFiles
           ELSE /\ tmpFiles' = [tmpFiles EXCEPT ![cur.tmp] = NoFile]
                /\ req' = Return([cur EXCEPT !.seen =
                                     IF code # 0 THEN "unchecked"
                                     ELSE IF present THEN "present" ELSE "absent"],
                                 Classify(code, present, cur.out))
    /\ UNCHANGED <<fs, outFiles, health>>

\* The 120 seconds elapse: subprocess.run kills the child and raises
\* TimeoutExpired.
ChildTimeout ==
    /\ req.pc = "running"
    /\ req' = Throw([req EXCEPT !.outcome = "timeout"], "TimeoutExpired", "subprocess.run")
    /\ UNCHANGED <<fs, tmpFiles, outFiles, health>>

\* GET /health, between two requests.
health_check ==
    /\ req.pc \in {"idle", "done"}
    /\ LET s == find_kokoro_script(fs) IN
        health' = [called |-> TRUE, kokoro_available |-> s # 0, script_path |-> s]
    /\ health' # health
    /\ UNCHANGED <<fs, tmpFiles, outFiles, req>>

Next ==
    \/ generate_speech
    \/ Locate
    \/ CreateTemp
    \/ Spawn
    \/ ChildWrite
    \/ ChildExit
    \/ ChildTimeout
    \/ health_check

Spec == Init /\ [][Next]_vars

\* The Locator over every filesystem: the requests up to the lookup, and
\* /health.
InitLocator == fs \in FsStates /\ InitRest

NextLocator ==
    \/ generate_speech
    \/ Locate
    \/ health_check

SpecLocator == InitLocator /\ [][NextLocator]_vars

\* ========================================================== properties ====
Done == req.pc = "done"
Entered == req.pc # "idle"
AllWhitespace(t) == \A i \in DOMAIN t : t[i].c = "ws"
NoCandidate == \A i \in Candidates : fs[i] = "absent"

\* C1: after a call of run_kokoro_tts that created a temporary input file,
\* that file no longer exists, on every exit path.
C1_TempFileRemoved ==
    (Done /\ req.tmp # 0) => ~tmpFiles[req.tmp].exists

\* C2: run_kokoro_tts never raises to its caller: every call returns a
\* (success, message, outputPath) result in which outputPath is present
\* exactly when success is true.
C2_InvokerNeverRaises ==
    /\ ~req.raised
    /\ (Done /\ req.calls > 0) =>
          /\ req.returned
          /\ req.result.message # NoMsg
          /\ req.result.success <=> req.result.outputPath # NoPath
    /\ ~req.returned => req.result = NoResult

C2_Witness ==
    /\ Done /\ req.returned
    /\ req.exc = "OSError" /\ req.excAt = "os.unlink"
    /\ ~req.result.success /\ req.result.outputPath = NoPath

\* C3: a request whose text is empty or all whitespace is answered 400 with
\* the empty-text message, and run_kokoro_tts is never called for it: no
\* lookup, no temporary file, no child process.
C3_BlankRejected ==
    (Entered /\ AllWhitespace(req.text)) =>
        /\ Done
        /\ req.response = Response(400, MsgEmpty, NoPath, "")
        /\ req.calls = 0 /\ req.script = 0 /\ req.tmp = 0 /\ ~req.spawned

C3_Witness ==
    /\ Done /\ req.text = <<Run("ws", 1)>>
    /\ req.response.status = 400 /\ req.calls = 0

\* C4 as stated: a request whose text has a length between 1 and 5000 after
\* trimming passes validation and run_kokoro_tts is called exactly once.
C4_Original ==
    (Done /\ TextLen(Strip(req.text)) >= 1 /\ TextLen(Strip(req.text)) <= MaxTextLen) =>
        /\ req.response.status # 400
        /\ req.calls = 1

\* C4: a request whose text is not all whitespace and has at most 5000
\* characters before trimming passes validation, run_kokoro_tts is called
\* exactly once, and the temporary input file given to the child process
\* holds the submitted text, untrimmed and unmodified.
C4_ValidTextVerbatim ==
    /\ (Entered /\ ~AllWhitespace(req.text) /\ TextLen(req.text) <= MaxTextLen) =>
          /\ req.response.status # 400
          /\ req.calls = 1
    /\ req.spawned => req.childInput = req.text
    /\ (req.pc \in {"spawn", "running"}) => tmpFiles[req.tmp].content = req.text

C4_Witness ==
    /\ req.spawned /\ Done
    /\ req.text = <<Run("ws", 1), Run("ch", MaxTextLen - 1)>>
    /\ req.childInput = req.text
    /\ req.calls = 1

\* C5 as stated: every request whose text is longer than 5000 characters is
\* answered 400 with the too-long message, whatever the text holds.
C5_Original ==
    (Done /\ TextLen(req.text) > MaxTextLen) =>
        /\ req.response = Response(400, MsgTooLong, NoPath, "")
        /\ req.calls = 0

\* C5: every request whose text is longer than 5000 characters is rejected
\* with status 400 and run_kokoro_tts is not called; the message is the
\* too-long one unless the text is all whitespace, which gets the empty-text
\* message.
C5_TooLongRejected ==
    (Entered /\ TextLen(req.text) > MaxTextLen) =>
        /\ Done
        /\ req.calls = 0 /\ req.tmp = 0 /\ ~req.spawned
        /\ req.response =
              Response(400, IF AllWhitespace(req.text) THEN MsgEmpty ELSE MsgTooLong,
                       NoPath, "")

C5_Witness ==
    /\ Done /\ req.text = <<Run("ws", 1), Run("ch", MaxTextLen)>>
    /\ req.response = Response(400, MsgTooLong, NoPath, "")

\* C6 as stated: once the script is located the result follows from the
\* child's outcome alone, and /generate answers 200 only for a zero exit with
\* the output file present, 500 otherwise.
C6_Original ==
    (Done /\ req.spawned) =>
        /\ req.outcome = "timeout" => req.result = Result(FALSE, MsgTimeout, NoPath)
        /\ req.outcome = "exit1" =>
              req.result = Result(FALSE, MsgFailed(ChildStderr), NoPath)
        /\ (req.outcome = "exit0" /\ ~outFiles[req.out]) =>
              req.result = Result(FALSE, MsgOutputMissing, NoPath)
        /\ (req.outcome = "exit0" /\ outFiles[req.out]) =>
              req.result = Result(TRUE, MsgSuccess, req.out)
        /\ req.response.status =
              IF req.outcome = "exit0" /\ outFiles[req.out] THEN 200 ELSE 500

\* C6: once the script is located, a timeout gives the Timeout failure with
\* no path; when the child exits and the temporary input file is removed
\* without error, a non-zero exit gives the ToolExecutionFailed failure with
\* the captured error stream, a zero exit without output file gives
\* OutputMissing and a zero exit with the output file gives success with its
\* path; when creating the temporary file, spawning the child or removing
\* the temporary file raises, the result is the "Unexpected error" failure.
\* /generate answers 200 only when the child exited with zero and the output
\* file was seen present, 500 otherwise.
C6_ResultFromOutcome ==
    (Done /\ req.script # 0) =>
        /\ req.outcome = "timeout" => req.result = Result(FALSE, MsgTimeout, NoPath)
        /\ (req.outcome = "none" \/ req.excAt = "os.unlink") =>
              req.result = Result(FALSE, MsgUnexpected("OSError"), NoPath)
        /\ (req.outcome = "exit1" /\ req.exc = "none") =>
              req.result = Result(FALSE, MsgFailed(ChildStderr), NoPath)
        /\ (req.outcome = "exit0" /\ req.exc = "none" /\ ~outFiles[req.out]) =>
              /\ req.result = Result(FALSE, MsgOutputMissing, NoPath)
              /\ req.seen = "absent"
        /\ (req.outcome = "exit0" /\ req.exc = "none" /\ outFiles[req.out]) =>
              /\ req.result = Result(TRUE, MsgSuccess, req.out)
              /\ req.seen = "present"
        /\ req.response.status \in {200, 500}
        /\ req.response.status = 200 <=>
              (req.outcome = "exit0" /\ req.seen = "present" /\ req.exc = "none")
        /\ req.response.status = 200 => req.response.file = req.out
        /\ req.response.status = 500 => req.response.detail = req.result.message

C6_Witness ==
    /\ Done /\ req.outcome = "exit0" /\ req.seen = "present"
    /\ req.result = Result(TRUE, MsgSuccess, req.out)
    /\ req.response.status = 200

\* C7 as stated: when no candidate holds the script, every /generate request
\* is answered 500 with the not-found message.
C7_Original ==
    (NoCandidate /\ Done) =>
        /\ req.response = Response(500, MsgNotFound, NoPath, "")
        /\ req.tmp = 0 /\ ~req.spawned

\* C7: when no candidate holds the script, every /generate request that
\* passes validation is answered 500 with the not-found message, no request
\* spawns a child process or creates a temporary file, and /health reports
\* kokoro_available false with script_path null.
C7_ToolNotFound ==
    NoCandidate =>
        /\ (Entered /\ req.calls > 0 /\ req.pc # "locate") =>
              /\ Done
              /\ req.response = Response(500, MsgNotFound, NoPath, "")
        /\ req.tmp = 0 /\ ~req.spawned
        /\ \A n \in TmpNames : ~tmpFiles[n].exists
        /\ health.called => (~health.kokoro_available /\ health.script_path = 0)

C7_Witness ==
    /\ NoCandidate /\ Done /\ req.calls = 1
    /\ req.response = Response(500, MsgNotFound, NoPath, "")
    /\ health.called /\ ~health.kokoro_available

\* C8: an unexpected exception raised while a /generate request is handled,
\* inside run_kokoro_tts included, gives a generic 500 whose body carries no
\* detail of the exception; only the four classified failures carry their
\* message to the client.
ClassifiedKinds ==
    {MsgNotFound.kind, MsgFailed("").kind, MsgOutputMissing.kind, MsgTimeout.kind}

C8_NoDetailLeaked ==
    Done =>
        /\ req.exc \notin {"none", "TimeoutExpired"} =>
              req.response = Response(500, MsgInternal, NoPath, "")
        /\ (req.response.status = 500 /\ req.response.detail # MsgInternal) =>
              req.response.detail.kind \in ClassifiedKinds

\* C9: the Locator returns the first candidate, in list order, that holds an
\* executable script, reports not found exactly when no candidate holds one,
\* and never reports a path that is not an executable file.
FirstExecutable(f) ==
    IF \E i \in Candidates : f[i] = "file_exec"
    THEN CHOOSE i \in Candidates :
            f[i] = "file_exec" /\ \A j \in Candidates : f[j] = "file_exec" => i <= j
    ELSE 0

C9_LocatorFirstExecutable ==
    /\ (req.calls > 0 /\ req.pc # "locate") => req.script = FirstExecutable(fs)
    /\ health.called => health.script_path = FirstExecutable(fs)

\* C10: no two invocations use the same temporary input file or the same
\* output file, so no invocation overwrites, or reports as its own result, a
\* file that belongs to another invocation.
C10_UniquePaths ==
    /\ req.out # NoPath => ~req.clobbers
    /\ req.result.success => req.wrote
    /\ (req.pc \in {"spawn", "running"}) => tmpFiles[req.tmp].exists

====
